---- MODULE Spec2Model ----
(***************************************************************************)
(* Model of the two image generators of aquario-stats:                     *)
(*   scripts/generate-html-images.py  (HTMLStatsGenerator, "html")         *)
(*   scripts/generate-images.py       (ContributorVisualizer, "charts")    *)
(* One run of either script: load_data, prepare_contributor_data, the two  *)
(* renderers, and main's exit status.                                      *)
(***************************************************************************)
EXTENDS Integers, Sequences, FiniteSets, TLC

VARIABLES
    script,        \* which script runs: "html" or "charts"
    listing,       \* os.listdir('.') in listing order: [name, mtime, content]
    pc,            \* position of the run
    data_file,     \* the file load_data selected (<<>> while none)
    data,          \* self.data
    prepared,      \* what prepare_contributor_data returned
    view,          \* what the renderers were handed: top3 rows, medals, ranking rows
    cur,           \* the artifact being rendered ("none" outside a render)
    dims,          \* width/height of the render in progress, viewport and clip set
    rresult,       \* how the try block of render_html_to_image ended
    browser,       \* the browser variable of render_html_to_image
    opened,        \* browser processes launched and not yet closed
    launches,      \* browser processes launched in this run
    attempts,      \* artifact -> number of times its rendering was started
    artifacts,     \* artifact -> "absent" | "written"
    rendered,      \* artifact -> its renderer returned success
    uncaught,      \* exception that escaped to the interpreter ("none" if none)
    diag,          \* the failure diagnostics printed so far, in order
    success,       \* what generate_images / generate_all_charts returned ("pending" before)
    exit_status    \* process exit status (-1 while the process runs)

vars == <<script, listing, pc, data_file, data, prepared, view, cur, dims, rresult, browser,
          opened, launches, attempts, artifacts, rendered, uncaught, diag, success,
          exit_status>>

(***************************************************************************)
(* Bounds of the model.                                                    *)
(***************************************************************************)
MaxFiles == 3        \* files in the working directory (locator specification)
MaxMtime == 2        \* distinct modification times
MaxContribs == 3     \* contributors in a ranked document
MaxCommits == 1      \* total_commits of a contributor: 0..MaxCommits
MaxWeeks == 2        \* weeks of a full-shape record
MaxLines == 1        \* additions/deletions of a week or a total: 0..MaxLines
MaxRanked == 4       \* contributors in a document of the whole-run specification

(***************************************************************************)
(* Python helpers.                                                         *)
(***************************************************************************)
EmptyDict == [k \in {} |-> 0]

\* dict.get(k, d)
Get(c, k, d) == IF k \in DOMAIN c THEN c[k] ELSE d

\* 'k' in dict
Has(c, k) == k \in DOMAIN c

\* str.startswith / str.endswith, on names held as sequences of atomic pieces
StartsWith(s, p) == Len(s) >= Len(p) /\ SubSeq(s, 1, Len(p)) = p
EndsWith(s, p) == Len(s) >= Len(p) /\ SubSeq(s, Len(s) - Len(p) + 1, Len(s)) = p

RECURSIVE SumSeq(_)
\* sum(...) over a sequence of integers
SumSeq(s) == IF s = <<>> THEN 0 ELSE s[1] + SumSeq(Tail(s))

\* s[:n]
Slice(s, n) == SubSeq(s, 1, IF Len(s) < n THEN Len(s) ELSE n)

\* list.sort(key=..., reverse=True) on [key, val] pairs: descending by key, and
\* stable (elements with equal keys keep their original order).
InsertDesc(sorted, x) ==
    LET k == Cardinality({j \in 1..Len(sorted) : sorted[j].key >= x.key})
    IN  SubSeq(sorted, 1, k) \o <<x>> \o SubSeq(sorted, k + 1, Len(sorted))

RECURSIVE SortDesc(_)
SortDesc(s) ==
    IF s = <<>> THEN <<>>
    ELSE InsertDesc(SortDesc(SubSeq(s, 1, Len(s) - 1)), s[Len(s)])

Vals(pairs) == [i \in 1..Len(pairs) |-> pairs[i].val]

(***************************************************************************)
(* File names.  A name is a sequence of atomic pieces, so that the two     *)
(* prefixes and the suffix are prefixes and a suffix of the sequence.      *)
(***************************************************************************)
PrefixFull == <<"contributors-">>
PrefixSummary == <<"contributors-", "summary-">>
SuffixJson == <<".json">>

FileNames ==
    { <<"contributors-", "2024-01", ".json">>,
      <<"contributors-", "2024-02", ".json">>,
      <<"contributors-", "summary-", "2024-01", ".json">>,
      <<"contributors-", "summary-", "2024-02", ".json">>,
      <<"contributors-", "2024-01", ".csv">>,
      <<"package", ".json">> }

NoFile == <<>>

\* the filter of the full-file comprehension
IsFullName(f) ==
    StartsWith(f, PrefixFull) /\ ~StartsWith(f, PrefixSummary) /\ EndsWith(f, SuffixJson)

\* a variant of IsSummaryName that forgets the prefix
IsSummaryNameAnyJson(f) == EndsWith(f, SuffixJson)

\* the filter of the summary-file comprehension
IsSummaryName(f) == StartsWith(f, PrefixSummary) /\ EndsWith(f, SuffixJson)

\* [f for f in os.listdir('.') if ...]: the entries passing the filter, in listing order
full_files(dir) == SelectSeq(dir, LAMBDA e : IsFullName(e.name))
summary_files(dir) == SelectSeq(dir, LAMBDA e : IsSummaryName(e.name))

\* files.sort(key=lambda x: os.path.getmtime(x), reverse=True); files[0]
MostRecent(files) ==
    Vals(SortDesc([i \in 1..Len(files) |-> [key |-> files[i].mtime, val |-> files[i]]]))[1]

(***************************************************************************)
(* Input documents.  A JSON object is a function from its keys, so that    *)
(* 'k' in d is k \in DOMAIN d and a missing key is really missing.         *)
(***************************************************************************)
Logins == <<"ana", "bia", "caio", "davi", "eva", "fabio", "gabi", "hugo", "iris", "joao",
            "kaua", "lia">>

Author(login) == [login |-> login, avatar_url |-> "avatar", html_url |-> "profile"]

Weeks == { w1 @@ w2 : w1 \in {EmptyDict} \cup {[additions |-> a] : a \in 0..MaxLines},
                      w2 \in {[deletions |-> d] : d \in 0..MaxLines} }

WeekSeqs == UNION { [1..n -> Weeks] : n \in 0..MaxWeeks }

Totals == { t1 @@ t2 : t1 \in {EmptyDict} \cup {[total_additions |-> a] : a \in 0..MaxLines},
                       t2 \in {[total_deletions |-> d] : d \in 0..MaxLines} }

\* every shape of the line counts of one record: weeks, totals, both, neither
LineShapes == { w @@ t : w \in {EmptyDict} \cup {[weeks |-> ws] : ws \in WeekSeqs},
                         t \in Totals \cup {EmptyDict} }

\* documents of one contributor, over every line shape
ShapeDocs ==
    { [contributors |-> <<[author |-> Author(Logins[1]), total_commits |-> 1] @@ l>>]
        : l \in LineShapes }

\* the two line shapes used in ranked documents
FullLines == [weeks |-> <<[additions |-> 1, deletions |-> 0], [additions |-> 1, deletions |-> 1]>>]
SummaryLines == [total_additions |-> 1, total_deletions |-> 1]

\* the records of ranked documents: ana's is full-shape, bia's summary-shape, caio's
\* carries both weeks and totals
RankedRecords ==
    { [author |-> Author(Logins[1]), total_commits |-> c] @@ FullLines : c \in 0..MaxCommits }
    \cup { [author |-> Author(Logins[2]), total_commits |-> c] @@ SummaryLines
            : c \in 0..MaxCommits }
    \cup { [author |-> Author(Logins[3]), total_commits |-> c] @@ FullLines @@ SummaryLines
            : c \in 0..MaxCommits }

RankedLists == UNION { [1..n -> RankedRecords] : n \in 0..MaxContribs }

\* the statistics object of a document: missing, without total_commits, or with it
StatisticsParts ==
    { EmptyDict, [statistics |-> EmptyDict] }
    \cup { [statistics |-> [total_commits |-> t]] : t \in {0, 100} }

RankedDocs == { [contributors |-> cs] @@ st : cs \in RankedLists, st \in StatisticsParts }

Json(d) == [kind |-> "json", doc |-> d]
Malformed == [kind |-> "malformed"]
Unreadable == [kind |-> "unreadable"]
NoData == [kind |-> "None"]

(***************************************************************************)
(* prepare_contributor_data.                                               *)
(***************************************************************************)
\* sum(week.get(k, 0) for week in contributor.get('weeks', []))
WeekSum(contributor, k) ==
    LET weeks == Get(contributor, "weeks", <<>>)
    IN  SumSeq([i \in 1..Len(weeks) |-> Get(weeks[i], k, 0)])

\* a variant of HtmlLineCounts that takes the supplied totals whenever they are there
HtmlLineCountsTotalsFirst(contributor) ==
    IF Has(contributor, "total_additions") \/ ~Has(contributor, "weeks")
    THEN [additions |-> Get(contributor, "total_additions", 0),
          deletions |-> Get(contributor, "total_deletions", 0)]
    ELSE [additions |-> WeekSum(contributor, "additions"),
          deletions |-> WeekSum(contributor, "deletions")]

\* generate-html-images.py: the if 'weeks' in contributor ... else ... of the loop
HtmlLineCounts(contributor) ==
    IF Has(contributor, "weeks")
    THEN [additions |-> WeekSum(contributor, "additions"),
          deletions |-> WeekSum(contributor, "deletions")]
    ELSE [additions |-> Get(contributor, "total_additions", 0),
          deletions |-> Get(contributor, "total_deletions", 0)]

\* generate-images.py: the same branch
ChartsLineCounts(contributor) ==
    IF Has(contributor, "weeks")
    THEN [additions |-> WeekSum(contributor, "additions"),
          deletions |-> WeekSum(contributor, "deletions")]
    ELSE [additions |-> Get(contributor, "total_additions", 0),
          deletions |-> Get(contributor, "total_deletions", 0)]

\* the subscripts of contributors_data.append({...}) that raise KeyError
HtmlKeyError(contributor) ==
    \/ ~Has(contributor, "author")
    \/ ~Has(contributor["author"], "login")
    \/ ~Has(contributor, "total_commits")

\* the subscripts of processed_contributors.append({...}) that raise KeyError
ChartsKeyError(contributor) ==
    \/ ~Has(contributor, "author")
    \/ ~Has(contributor["author"], "login")
    \/ ~Has(contributor, "total_commits")
    \/ ~Has(contributor["author"], "avatar_url")

\* contributors_data.append({...})
HtmlSummary(contributor) ==
    LET n == HtmlLineCounts(contributor)
    IN  [name |-> contributor["author"]["login"],
         commits |-> contributor["total_commits"],
         additions |-> n.additions,
         deletions |-> n.deletions,
         net_lines |-> n.additions - n.deletions,
         avatar_url |-> Get(contributor["author"], "avatar_url", "None"),
         profile_url |-> Get(contributor["author"], "html_url", "None")]

\* processed_contributors.append({...})
ChartsSummary(contributor) ==
    LET n == ChartsLineCounts(contributor)
    IN  [name |-> contributor["author"]["login"],
         commits |-> contributor["total_commits"],
         additions |-> n.additions,
         deletions |-> n.deletions,
         net_lines |-> n.additions - n.deletions,
         avatar_url |-> contributor["author"]["avatar_url"]]

\* a variant of HtmlRank whose ties come out in reverse input order (a descending
\* sort obtained by sorting ascending and reversing)
HtmlRankReversedTies(summaries) ==
    LET asc == Vals(SortDesc([i \in 1..Len(summaries) |->
                               [key |-> 0 - summaries[i].commits, val |-> summaries[i]]]))
    IN  [i \in 1..Len(asc) |-> asc[Len(asc) + 1 - i]]

\* contributors_data.sort(key=lambda x: x['commits'], reverse=True)
HtmlRank(summaries) ==
    Vals(SortDesc([i \in 1..Len(summaries) |->
                     [key |-> summaries[i].commits, val |-> summaries[i]]]))

\* processed_contributors.sort(key=lambda x: x['commits'], reverse=True)
ChartsRank(summaries) ==
    Vals(SortDesc([i \in 1..Len(summaries) |->
                     [key |-> summaries[i].commits, val |-> summaries[i]]]))

\* a variant of HtmlTotalCommits that always recomputes the sum
HtmlTotalCommitsSummed(stats, contributors_data) ==
    SumSeq([i \in 1..Len(contributors_data) |-> contributors_data[i].commits])

\* 'total_commits': stats.get('total_commits', sum(c['commits'] for c in contributors_data))
HtmlTotalCommits(stats, contributors_data) ==
    Get(stats, "total_commits",
        SumSeq([i \in 1..Len(contributors_data) |-> contributors_data[i].commits]))

\* total_additions / total_deletions: summed over contributor.get('weeks', []) only
HtmlTotal(contributors, k) ==
    SumSeq([i \in 1..Len(contributors) |-> WeekSum(contributors[i], k)])

DefaultRepositoryHtml == "aquario-ufpb/aquario"

\* HTMLStatsGenerator.prepare_contributor_data on a document whose records all
\* have their fields: the returned dict (last_updated, a clock reading, left out)
HtmlAggregate(doc) ==
    LET contributors == Get(doc, "contributors", <<>>)
        stats == Get(doc, "statistics", EmptyDict)
        total_additions == HtmlTotal(contributors, "additions")
        total_deletions == HtmlTotal(contributors, "deletions")
        contributors_data ==
            HtmlRank([i \in 1..Len(contributors) |-> HtmlSummary(contributors[i])])
    IN  [kind |-> "aggregate",
         repository |-> Get(doc, "repository", DefaultRepositoryHtml),
         total_contributors |-> Len(contributors),
         total_commits |-> HtmlTotalCommits(stats, contributors_data),
         total_additions |-> total_additions,
         total_deletions |-> total_deletions,
         net_lines |-> total_additions - total_deletions,
         contributors |-> contributors_data]

\* ContributorVisualizer.prepare_contributor_data: [] for an empty list, else the
\* ranked summaries
ChartsPrepared(doc) ==
    LET contributors == Get(doc, "contributors", <<>>)
    IN  [kind |-> "list",
         contributors |->
            IF contributors = <<>> THEN <<>>
            ELSE ChartsRank([i \in 1..Len(contributors) |-> ChartsSummary(contributors[i])])]

NotPrepared == [kind |-> "none", contributors |-> <<>>]

(***************************************************************************)
(* The renderers' inputs and constants.                                    *)
(***************************************************************************)
Scripts == {"html", "charts"}
Artifacts == {"top3-contributors.png", "complete-ranking.png"}
Top3Png == "top3-contributors.png"
RankingPng == "complete-ranking.png"

TopN == 3
RankingLimit == 10
OverviewWidth == 600
OverviewHeight == 655
RankingWidth == 800
BaseHeight == 360
RowHeight == 45
DeviceScaleFactor == 2

HtmlMedals == <<"gold", "silver", "bronze", "ribbon", "ribbon">>
ChartsMedals == <<"gold", "silver", "bronze">>

\* medal = medals[i] if i < len(medals) else ribbon   (i counted from 1 here)
HtmlMedal(i) == IF i <= Len(HtmlMedals) THEN HtmlMedals[i] ELSE "ribbon"

NoView == [top3 |-> <<>>, medals |-> <<>>, ranking |-> <<>>]
NoDims == [width |-> 0, height |-> 0, viewport |-> EmptyDict, clip |-> EmptyDict]

\* create_overview_html: one contributor-item per entry of data['contributors'][:3],
\* each with its medal
OverviewRows(agg) ==
    LET top == Slice(agg.contributors, TopN)
    IN  [top3 |-> [i \in 1..Len(top) |-> [name |-> top[i].name, commits |-> top[i].commits]],
         medals |-> [i \in 1..Len(top) |-> [at |-> i, medal |-> HtmlMedal(i)]]]

\* create_detailed_html: one table row per entry of data['contributors']
DetailedRows(agg) ==
    [i \in 1..Len(agg.contributors) |->
        [rank |-> i, medal |-> HtmlMedal(i),
         name |-> agg.contributors[i].name,
         commits |-> agg.contributors[i].commits,
         additions |-> agg.contributors[i].additions,
         deletions |-> agg.contributors[i].deletions,
         net_lines |-> agg.contributors[i].net_lines]]

\* a variant of height_complete_ranking that leaves the height at the default of
\* render_html_to_image(..., width=800, height=600)
height_complete_ranking_default(agg) == 600

\* height_complete_ranking = 360 + len(data['contributors']) * 45
height_complete_ranking(agg) == BaseHeight + (Len(agg.contributors) * RowHeight)

\* create_top3_chart: one bar per entry of contributors[:3]; one medal text per
\* entry of medals, at x = 0, 1, 2 (held here as 1, 2, 3)
Top3Bars(contributors) ==
    LET top3 == Slice(contributors, TopN)
    IN  [top3 |-> [i \in 1..Len(top3) |-> [name |-> top3[i].name, commits |-> top3[i].commits]],
         medals |-> [i \in 1..Len(ChartsMedals) |-> [at |-> i, medal |-> ChartsMedals[i]]]]

\* create_complete_ranking_chart: one bar per entry of contributors[:10]
RankingBars(contributors) ==
    LET top_contributors == Slice(contributors, RankingLimit)
    IN  [i \in 1..Len(top_contributors) |->
            [name |-> top_contributors[i].name,
             commits |-> top_contributors[i].commits,
             additions |-> top_contributors[i].additions,
             deletions |-> top_contributors[i].deletions]]

(***************************************************************************)
(* The run.                                                                *)
(***************************************************************************)
NoEntry == [name |-> NoFile, mtime |-> 0, content |-> Unreadable]

\* a variant of Selected that takes the most recent file of either convention
SelectedNewestOfEither(dir) ==
    LET both == SelectSeq(dir, LAMBDA e : IsFullName(e.name) \/ IsSummaryName(e.name))
    IN  IF both = <<>> THEN NoEntry ELSE MostRecent(both)

\* load_data's choice of data_file: the most recent full file if there is one,
\* else the most recent summary file, else none
Selected(dir) ==
    IF full_files(dir) # <<>> THEN MostRecent(full_files(dir))
    ELSE IF summary_files(dir) = <<>> THEN NoEntry
    ELSE MostRecent(summary_files(dir))

\* an exception nothing catches: the interpreter prints the traceback and the
\* process ends with status 1
Crash(exception) ==
    /\ uncaught' = exception
    /\ exit_status' = 1
    /\ pc' = "done"

\* load_data, and generate_images / generate_all_charts returning False when it fails
load_data ==
    /\ pc = "load_data"
    /\ LET e == Selected(listing)
       IN  /\ data_file' = e.name
           /\ IF e.name = NoFile
              THEN /\ diag' = Append(diag, "No contributor data files found")
                   /\ success' = "False"
                   /\ pc' = "main"
                   /\ data' = data
              ELSE IF e.content.kind = "json"
              THEN /\ data' = e.content
                   /\ pc' = "prepare"
                   /\ UNCHANGED <<diag, success>>
              ELSE \* open() or json.load() raised: except Exception
                   /\ diag' = Append(diag, "Error loading data")
                   /\ success' = "False"
                   /\ pc' = "main"
                   /\ data' = data
    /\ UNCHANGED <<script, listing, prepared, view, cur, dims, rresult, browser, opened,
                   launches, attempts, artifacts, rendered, uncaught, exit_status>>

\* generate_images: data = self.prepare_contributor_data()
html_prepare_contributor_data ==
    /\ pc = "prepare"
    /\ script = "html"
    /\ LET contributors == Get(data.doc, "contributors", <<>>)
       IN  IF \E i \in 1..Len(contributors) : HtmlKeyError(contributors[i])
           THEN Crash("KeyError") /\ UNCHANGED prepared
           ELSE /\ prepared' = HtmlAggregate(data.doc)
                /\ pc' = "create_overview_html"
                /\ UNCHANGED <<uncaught, exit_status>>
    /\ UNCHANGED <<script, listing, data_file, data, view, cur, dims, rresult, browser,
                   opened, launches, attempts, artifacts, rendered, diag, success>>

\* a variant of charts_prepare_contributor_data without the early return on an empty list
charts_prepare_without_guard ==
    /\ pc = "prepare"
    /\ script = "charts"
    /\ LET contributors == Get(data.doc, "contributors", <<>>)
       IN  IF \E i \in 1..Len(contributors) : ChartsKeyError(contributors[i])
           THEN Crash("KeyError") /\ UNCHANGED <<prepared, diag, success>>
           ELSE /\ prepared' = ChartsPrepared(data.doc)
                /\ pc' = "create_top3_chart"
                /\ UNCHANGED <<uncaught, exit_status, diag, success>>
    /\ UNCHANGED <<script, listing, data_file, data, view, cur, dims, rresult, browser,
                   opened, launches, attempts, artifacts, rendered>>

\* generate_all_charts: contributors = self.prepare_contributor_data();
\* if not contributors: return False
charts_prepare_contributor_data ==
    /\ pc = "prepare"
    /\ script = "charts"
    /\ LET contributors == Get(data.doc, "contributors", <<>>)
       IN  IF contributors = <<>>
           THEN /\ prepared' = ChartsPrepared(data.doc)
                /\ diag' = Append(diag, "No contributor data to visualize")
                /\ success' = "False"
                /\ pc' = "main"
                /\ UNCHANGED <<uncaught, exit_status>>
           ELSE IF \E i \in 1..Len(contributors) : ChartsKeyError(contributors[i])
           THEN Crash("KeyError") /\ UNCHANGED <<prepared, diag, success>>
           ELSE /\ prepared' = ChartsPrepared(data.doc)
                /\ pc' = "create_top3_chart"
                /\ UNCHANGED <<uncaught, exit_status, diag, success>>
    /\ UNCHANGED <<script, listing, data_file, data, view, cur, dims, rresult, browser,
                   opened, launches, attempts, artifacts, rendered>>

\* the call of render_html_to_image(html, output_dir / artifact, width, height)
render_html_to_image(artifact, width, height) ==
    /\ cur' = artifact
    /\ dims' = [width |-> width, height |-> height, viewport |-> EmptyDict, clip |-> EmptyDict]
    /\ attempts' = [attempts EXCEPT ![artifact] = @ + 1]
    /\ rresult' = "running"
    /\ browser' = "None"
    /\ pc' = "launch"

\* create_overview_html(data), then the call of render_html_to_image for the overview
create_overview_html ==
    /\ pc = "create_overview_html"
    /\ \E template_ok \in BOOLEAN :
         IF template_ok
         THEN /\ view' = [view EXCEPT !.top3 = OverviewRows(prepared).top3,
                                      !.medals = OverviewRows(prepared).medals]
              /\ render_html_to_image(Top3Png, OverviewWidth, OverviewHeight)
              /\ UNCHANGED <<uncaught, exit_status>>
         ELSE /\ Crash("FileNotFoundError")
              /\ UNCHANGED <<view, cur, dims, attempts, rresult, browser>>
    /\ UNCHANGED <<script, listing, data_file, data, prepared, opened, launches,
                   artifacts, rendered, diag, success>>

\* create_detailed_html(data), the height, then the call of render_html_to_image
create_detailed_html ==
    /\ pc = "create_detailed_html"
    /\ \E template_ok \in BOOLEAN :
         IF template_ok
         THEN /\ view' = [view EXCEPT !.ranking = DetailedRows(prepared)]
              /\ render_html_to_image(RankingPng, RankingWidth, height_complete_ranking(prepared))
              /\ UNCHANGED <<uncaught, exit_status>>
         ELSE /\ Crash("FileNotFoundError")
              /\ UNCHANGED <<view, cur, dims, attempts, rresult, browser>>
    /\ UNCHANGED <<script, listing, data_file, data, prepared, opened, launches,
                   artifacts, rendered, diag, success>>

\* browser = await launch(...)
launch ==
    /\ pc = "launch"
    /\ \E ok \in BOOLEAN :
         IF ok
         THEN /\ browser' = "open"
              /\ opened' = opened + 1
              /\ launches' = launches + 1
              /\ pc' = "newPage"
              /\ UNCHANGED <<rresult, diag>>
         ELSE \* except Exception: return False, through finally with browser None
              /\ rresult' = "False"
              /\ diag' = Append(diag, "Error rendering HTML to image")
              /\ pc' = "finally"
              /\ UNCHANGED <<browser, opened, launches>>
    /\ UNCHANGED <<script, listing, data_file, data, prepared, view, cur, dims, attempts,
                   artifacts, rendered, uncaught, success, exit_status>>

PageSteps == <<"newPage", "setViewport", "evaluate", "setContent", "sleep", "screenshot">>

StepAfter(step) ==
    IF step = "screenshot" THEN "finally"
    ELSE PageSteps[(CHOOSE i \in 1..Len(PageSteps) : PageSteps[i] = step) + 1]

\* how an await of the try block can end: it returns, it raises an Exception (caught
\* by except Exception), or, for asyncio.sleep, the task is cancelled: CancelledError,
\* which except Exception catches or not depending on the Python version
StepOutcomes(step) ==
    IF step = "sleep" THEN {"ok", "Exception", "CancelledError"} ELSE {"ok", "Exception"}

\* newPage, setViewport, evaluate, setContent, asyncio.sleep(2), screenshot
PageStep ==
    /\ \E i \in 1..Len(PageSteps) : pc = PageSteps[i]
    /\ \E outcome \in StepOutcomes(pc) :
         IF outcome = "ok"
         THEN /\ pc' = StepAfter(pc)
              /\ dims' = IF pc = "setViewport"
                         THEN [dims EXCEPT !.viewport =
                                 [width |-> dims.width, height |-> dims.height,
                                  deviceScaleFactor |-> DeviceScaleFactor]]
                         ELSE IF pc = "screenshot"
                         THEN [dims EXCEPT !.clip =
                                 [x |-> 0, y |-> 0, width |-> dims.width, height |-> dims.height]]
                         ELSE dims
              /\ artifacts' = IF pc = "screenshot"
                              THEN [artifacts EXCEPT ![cur] = "written"]
                              ELSE artifacts
              /\ rresult' = IF pc = "screenshot" THEN "True" ELSE rresult
              /\ diag' = diag
         ELSE /\ pc' = "finally"
              /\ \E caught \in (IF outcome = "Exception" THEN {TRUE} ELSE BOOLEAN) :
                   /\ rresult' = IF caught THEN "False" ELSE "raise"
                   /\ diag' = IF caught THEN Append(diag, "Error rendering HTML to image")
                              ELSE diag
              /\ UNCHANGED <<dims, artifacts>>
    /\ UNCHANGED <<script, listing, data_file, data, prepared, view, cur, browser, opened,
                   launches, attempts, rendered, uncaught, success, exit_status>>

\* a variant of Finally that closes the browser only when the try block succeeded
\* (close at the end of the try block instead of in finally)
FinallyCloseOnSuccess ==
    /\ pc = "finally"
    /\ browser' = IF browser = "open" /\ rresult = "True" THEN "closed" ELSE browser
    /\ opened' = IF browser = "open" /\ rresult = "True" THEN opened - 1 ELSE opened
    /\ IF rresult = "raise"
       THEN Crash("CancelledError") /\ UNCHANGED rendered
       ELSE /\ rendered' = [rendered EXCEPT ![cur] = (rresult = "True")]
            /\ pc' = "returned"
            /\ UNCHANGED <<uncaught, exit_status>>
    /\ UNCHANGED <<script, listing, data_file, data, prepared, view, cur, dims, rresult,
                   launches, attempts, artifacts, diag, success>>

\* finally: if browser: await browser.close() (an exception of close is swallowed);
\* then the return of the try block or of the handler, or the exception goes on
Finally ==
    /\ pc = "finally"
    /\ browser' = IF browser = "open" THEN "closed" ELSE browser
    /\ opened' = IF browser = "open" THEN opened - 1 ELSE opened
    /\ IF rresult = "raise"
       THEN Crash("CancelledError") /\ UNCHANGED rendered
       ELSE /\ rendered' = [rendered EXCEPT ![cur] = (rresult = "True")]
            /\ pc' = "returned"
            /\ UNCHANGED <<uncaught, exit_status>>
    /\ UNCHANGED <<script, listing, data_file, data, prepared, view, cur, dims, rresult,
                   launches, attempts, artifacts, diag, success>>

\* a variant of AfterRender that goes on to the detailed ranking whatever the
\* overview's result
AfterRenderContinuing ==
    /\ pc = "returned"
    /\ IF cur = Top3Png
       THEN /\ pc' = "create_detailed_html"
            /\ UNCHANGED <<diag, success>>
       ELSE IF ~rendered[cur]
       THEN /\ diag' = Append(diag, "Failed to generate detailed ranking image")
            /\ success' = "False"
            /\ pc' = "main"
       ELSE /\ success' = "True"
            /\ pc' = "main"
            /\ diag' = diag
    /\ cur' = "none"
    /\ UNCHANGED <<script, listing, data_file, data, prepared, view, dims, rresult, browser,
                   opened, launches, attempts, artifacts, rendered, uncaught, exit_status>>

\* generate_images after a render: if overview_success / if detailed_success
AfterRender ==
    /\ pc = "returned"
    /\ IF ~rendered[cur]
       THEN /\ diag' = Append(diag, IF cur = Top3Png
                                     THEN "Failed to generate overview image"
                                     ELSE "Failed to generate detailed ranking image")
            /\ success' = "False"
            /\ pc' = "main"
       ELSE IF cur = Top3Png
       THEN /\ pc' = "create_detailed_html"
            /\ UNCHANGED <<diag, success>>
       ELSE /\ success' = "True"
            /\ pc' = "main"
            /\ diag' = diag
    /\ cur' = "none"
    /\ UNCHANGED <<script, listing, data_file, data, prepared, view, dims, rresult, browser,
                   opened, launches, attempts, artifacts, rendered, uncaught, exit_status>>

\* create_top3_chart(contributors): drawn and saved, or a plotting call raises
create_top3_chart ==
    /\ pc = "create_top3_chart"
    /\ attempts' = [attempts EXCEPT ![Top3Png] = @ + 1]
    /\ \E ok \in BOOLEAN :
         IF ok
         THEN /\ view' = [view EXCEPT !.top3 = Top3Bars(prepared.contributors).top3,
                                      !.medals = Top3Bars(prepared.contributors).medals]
              /\ artifacts' = [artifacts EXCEPT ![Top3Png] = "written"]
              /\ rendered' = [rendered EXCEPT ![Top3Png] = TRUE]
              /\ pc' = "create_complete_ranking_chart"
              /\ UNCHANGED <<uncaught, exit_status>>
         ELSE /\ Crash("PlottingError")
              /\ UNCHANGED <<view, artifacts, rendered>>
    /\ UNCHANGED <<script, listing, data_file, data, prepared, cur, dims, rresult, browser,
                   opened, launches, diag, success>>

\* create_complete_ranking_chart(contributors), then return True
create_complete_ranking_chart ==
    /\ pc = "create_complete_ranking_chart"
    /\ attempts' = [attempts EXCEPT ![RankingPng] = @ + 1]
    /\ \E ok \in BOOLEAN :
         IF ok
         THEN /\ view' = [view EXCEPT !.ranking = RankingBars(prepared.contributors)]
              /\ artifacts' = [artifacts EXCEPT ![RankingPng] = "written"]
              /\ rendered' = [rendered EXCEPT ![RankingPng] = TRUE]
              /\ success' = "True"
              /\ pc' = "main"
              /\ UNCHANGED <<uncaught, exit_status>>
         ELSE /\ Crash("PlottingError")
              /\ UNCHANGED <<view, artifacts, rendered, success>>
    /\ UNCHANGED <<script, listing, data_file, data, prepared, cur, dims, rresult, browser,
                   opened, launches, diag>>

\* main: if success: ... else: print(failed); exit(1)
main ==
    /\ pc = "main"
    /\ IF success = "True"
       THEN exit_status' = 0 /\ diag' = diag
       ELSE exit_status' = 1 /\ diag' = Append(diag, "generation failed!")
    /\ pc' = "done"
    /\ UNCHANGED <<script, listing, data_file, data, prepared, view, cur, dims, rresult,
                   browser, opened, launches, attempts, artifacts, rendered, uncaught,
                   success>>

(***************************************************************************)
(* Specifications.                                                         *)
(***************************************************************************)
\* the state of a fresh process, after the constructor
InitRun ==
    /\ script \in Scripts
    /\ pc = "load_data"
    /\ data_file = NoFile
    /\ data = NoData
    /\ prepared = NotPrepared
    /\ view = NoView
    /\ cur = "none"
    /\ dims = NoDims
    /\ rresult = "none"
    /\ browser = "None"
    /\ opened = 0
    /\ launches = 0
    /\ attempts = [a \in Artifacts |-> 0]
    /\ artifacts = [a \in Artifacts |-> "absent"]
    /\ rendered = [a \in Artifacts |-> FALSE]
    /\ uncaught = "none"
    /\ diag = <<>>
    /\ success = "pending"
    /\ exit_status = -1

\* contributor i of a whole-run document
SampleContributor(i) ==
    [author |-> Author(Logins[i]), total_commits |-> (2 * i) % 3]
    @@ (IF i % 2 = 1 THEN FullLines ELSE SummaryLines)

SampleList(n) == [i \in 1..n |-> SampleContributor(i)]

\* records lacking a field the scripts subscript
BrokenRecords ==
    { [total_commits |-> 1] @@ FullLines,
      [author |-> [avatar_url |-> "avatar"], total_commits |-> 1] @@ FullLines,
      [author |-> Author(Logins[1])] @@ FullLines,
      [author |-> [login |-> Logins[1]], total_commits |-> 1] @@ FullLines }

SampleDocs ==
    { [contributors |-> SampleList(n)] : n \in 0..MaxRanked }
    \cup { [contributors |-> SampleList(n), statistics |-> [total_commits |-> 100]] : n \in {0, 2} }
    \cup { EmptyDict }
    \cup { [contributors |-> SampleList(1) \o <<b>>] : b \in BrokenRecords }
    \cup { [contributors |-> SampleList(RankingLimit + 1)] }

SampleContents == {Unreadable, Malformed} \cup {Json(d) : d \in SampleDocs}

\* the content of a file of the locator specification: a document naming its file
LocatorContent(name) == Json([contributors |-> <<>>, source |-> name])

LocatorListings ==
    { l \in UNION { [1..n -> [name : FileNames, mtime : 1..MaxMtime]] : n \in 0..MaxFiles }
        : \A i, j \in 1..Len(l) : i # j => l[i].name # l[j].name }

\* the locator: any directory of up to MaxFiles files, and load_data
InitLocator ==
    /\ InitRun
    /\ \E l \in LocatorListings :
         listing = [i \in 1..Len(l) |->
                      [name |-> l[i].name, mtime |-> l[i].mtime,
                       content |-> LocatorContent(l[i].name)]]

NextLocator == load_data

SpecLocator == InitLocator /\ [][NextLocator]_vars

\* the aggregation: one full file holding any document of the bounded families
InitAggregate ==
    /\ InitRun
    /\ \E d \in ShapeDocs \cup RankedDocs :
         listing = <<[name |-> <<"contributors-", "2024-01", ".json">>, mtime |-> 1,
                      content |-> Json(d)]>>

NextAggregate == load_data \/ html_prepare_contributor_data \/ charts_prepare_contributor_data

SpecAggregate == InitAggregate /\ [][NextAggregate]_vars

\* the whole run: a directory of at most one file, of any name and sample content
Init ==
    /\ InitRun
    /\ \/ listing = <<>>
       \/ \E f \in FileNames, c \in SampleContents :
            listing = <<[name |-> f, mtime |-> 1, content |-> c]>>

Next ==
    \/ load_data
    \/ html_prepare_contributor_data
    \/ charts_prepare_contributor_data
    \/ create_overview_html
    \/ create_detailed_html
    \/ launch
    \/ PageStep
    \/ Finally
    \/ AfterRender
    \/ create_top3_chart
    \/ create_complete_ranking_chart
    \/ main

Spec == Init /\ [][Next]_vars

(***************************************************************************)
(* Properties.                                                             *)
(***************************************************************************)
\* the records of the loaded document, in input order
InputContributors == IF data.kind = "json" THEN Get(data.doc, "contributors", <<>>) ELSE <<>>

\* prepare_contributor_data has returned its summaries
Prepared == prepared.kind # "none"

RECURSIVE WeeksTotal(_, _, _)
\* the sum of field k over the first n weeks, a missing field counting 0
WeeksTotal(weeks, k, n) ==
    IF n = 0 THEN 0
    ELSE WeeksTotal(weeks, k, n - 1) + (IF k \in DOMAIN weeks[n] THEN weeks[n][k] ELSE 0)

\* the summary the data model prescribes for a record
ExpectedSummary(c) ==
    LET full == "weeks" \in DOMAIN c
        a == IF full THEN WeeksTotal(c.weeks, "additions", Len(c.weeks))
             ELSE IF "total_additions" \in DOMAIN c THEN c.total_additions ELSE 0
        d == IF full THEN WeeksTotal(c.weeks, "deletions", Len(c.weeks))
             ELSE IF "total_deletions" \in DOMAIN c THEN c.total_deletions ELSE 0
    IN  [name |-> c.author.login, commits |-> c.total_commits,
         additions |-> a, deletions |-> d, net_lines |-> a - d]

\* what a produced summary says, without its passthrough fields
Core(s) == [name |-> s.name, commits |-> s.commits, additions |-> s.additions,
            deletions |-> s.deletions, net_lines |-> s.net_lines]

Occurrences(seq, x) == Cardinality({i \in 1..Len(seq) : seq[i] = x})

ExpectedSummaries == [i \in 1..Len(InputContributors) |-> ExpectedSummary(InputContributors[i])]
ProducedSummaries == [i \in 1..Len(prepared.contributors) |-> Core(prepared.contributors[i])]

\* C1: in both scripts every produced summary derives additions and deletions by
\* the one path the presence of weeks selects (the sums over weeks when weeks is
\* present, even beside supplied totals; else the supplied totals, a missing total
\* counting 0), and net_lines = additions - deletions: the produced summaries are,
\* record for record, the prescribed ones.
C1_OnePathPerRecord ==
    Prepared =>
        /\ Len(ProducedSummaries) = Len(ExpectedSummaries)
        /\ \A i \in 1..Len(ExpectedSummaries) :
             Occurrences(ProducedSummaries, ExpectedSummaries[i])
                = Occurrences(ExpectedSummaries, ExpectedSummaries[i])
        /\ \A i \in 1..Len(prepared.contributors) :
             prepared.contributors[i].net_lines
                = prepared.contributors[i].additions - prepared.contributors[i].deletions

\* a record with weeks and with supplied totals that differ from the sums over weeks
\* has been summarised
C1_Witness ==
    /\ Prepared
    /\ \E i \in 1..Len(InputContributors) :
         LET c == InputContributors[i]
         IN  /\ "weeks" \in DOMAIN c /\ "total_additions" \in DOMAIN c
             /\ c.total_additions # WeeksTotal(c.weeks, "additions", Len(c.weeks))
             /\ WeeksTotal(c.weeks, "additions", Len(c.weeks)) > 0

\* C2: the ranked list is the stable sort of the summaries by commits descending:
\* commits never increase along the output, and the summaries of any one commit
\* count appear in the output in their input order.
C2_StableRanking ==
    Prepared =>
        /\ \A i, j \in 1..Len(prepared.contributors) :
             i < j => prepared.contributors[i].commits >= prepared.contributors[j].commits
        /\ \A k \in {ExpectedSummaries[i].commits : i \in 1..Len(ExpectedSummaries)}
                     \cup {ProducedSummaries[i].commits : i \in 1..Len(ProducedSummaries)} :
             SelectSeq(ProducedSummaries, LAMBDA s : s.commits = k)
                = SelectSeq(ExpectedSummaries, LAMBDA s : s.commits = k)

\* an input of three or more records that is out of rank order and holds a tie
\* between two different records has been ranked
C2_Witness ==
    /\ Prepared
    /\ Len(InputContributors) >= 3
    /\ \E i, j \in 1..Len(InputContributors) :
         i < j /\ InputContributors[i].total_commits < InputContributors[j].total_commits
    /\ \E i, j \in 1..Len(InputContributors) :
         /\ i < j
         /\ InputContributors[i].total_commits = InputContributors[j].total_commits
         /\ InputContributors[i] # InputContributors[j]

\* the naming conventions, as the interface states them
FullConvention(name) ==
    /\ name # <<>>
    /\ name[1] = "contributors-"
    /\ ~(Len(name) >= 2 /\ name[2] = "summary-")
    /\ name[Len(name)] = ".json"

SummaryConvention(name) ==
    /\ Len(name) >= 2
    /\ name[1] = "contributors-" /\ name[2] = "summary-"
    /\ name[Len(name)] = ".json"

EntriesOf(P(_)) == {listing[i] : i \in {j \in 1..Len(listing) : P(listing[j].name)}}

\* e is the file load_data selected and read
SelectedIs(e) == data_file = e.name /\ data = e.content

\* C3: once load_data has run, the selected file is a full-convention file of the
\* latest modification time among the full-convention files whenever one exists
\* (whatever the summary files' times); it is a summary-convention file, the latest
\* modified, only when no full-convention file exists; and no file is selected when
\* neither kind exists.
C3_FullPreferred ==
    pc # "load_data" =>
        IF EntriesOf(FullConvention) # {}
        THEN \E e \in EntriesOf(FullConvention) :
               /\ SelectedIs(e)
               /\ \A f \in EntriesOf(FullConvention) : f.mtime <= e.mtime
        ELSE IF EntriesOf(SummaryConvention) # {}
        THEN \E e \in EntriesOf(SummaryConvention) :
               /\ SelectedIs(e)
               /\ \A f \in EntriesOf(SummaryConvention) : f.mtime <= e.mtime
        ELSE data_file = NoFile /\ data = NoData

\* load_data has selected a full file although a summary file is newer, and that
\* full file is newer than another full file listed before it
C3_Witness ==
    /\ pc # "load_data"
    /\ FullConvention(data_file)
    /\ \E s \in EntriesOf(SummaryConvention), e, f \in EntriesOf(FullConvention) :
         /\ e.name = data_file
         /\ s.mtime > f.mtime
         /\ e.mtime > f.mtime
         /\ \E i, j \in 1..Len(listing) : i < j /\ listing[i] = f /\ listing[j] = e

\* a failure diagnostic has been printed
InDiag(message) == \E i \in 1..Len(diag) : diag[i] = message

\* the working directory holds no file of either naming convention
NoMatchingFile == EntriesOf(FullConvention) = {} /\ EntriesOf(SummaryConvention) = {}

\* C4: with no file of either convention in the working directory, load_data
\* selects nothing and fails, no aggregation or rendering step is ever taken (no
\* browser launched, no chart drawn, no PNG written), and the process ends with a
\* non-zero status.
C4_NoDataAborts ==
    NoMatchingFile =>
        /\ pc \in {"load_data", "main", "done"}
        /\ data_file = NoFile /\ data = NoData
        /\ prepared = NotPrepared /\ view = NoView
        /\ launches = 0 /\ opened = 0
        /\ \A a \in Artifacts : attempts[a] = 0 /\ artifacts[a] = "absent"
        /\ pc # "load_data" => success = "False" /\ InDiag("No contributor data files found")
        /\ pc = "done" => exit_status # 0 /\ uncaught = "none"

\* a run in a directory holding only a file of neither convention has ended
C4_Witness ==
    /\ NoMatchingFile
    /\ Len(listing) = 1
    /\ pc = "done"
    /\ exit_status = 1

\* the loaded document's contributor list is empty
EmptyListLoaded ==
    /\ data.kind = "json"
    /\ "contributors" \in DOMAIN data.doc
    /\ data.doc.contributors = <<>>

\* the document supplies statistics.total_commits
ExternalTotalSupplied ==
    /\ data.kind = "json"
    /\ "statistics" \in DOMAIN data.doc
    /\ "total_commits" \in DOMAIN data.doc.statistics

\* a template, the browser or the plotting library failed
BackendFailed == uncaught # "none" \/ InDiag("Error rendering HTML to image")

\* C5 as stated: in both pipelines an empty contributor list is a valid result:
\* zero totals, an empty top-3, the renderers invoked, and no failure on its account.
C5_EmptyListValidInBoth ==
    EmptyListLoaded =>
        /\ Prepared => prepared.contributors = <<>>
        /\ (Prepared /\ script = "html") =>
             /\ prepared.total_contributors = 0
             /\ ~ExternalTotalSupplied => prepared.total_commits = 0
        /\ ~InDiag("No contributor data to visualize")
        /\ (pc = "done" /\ ~BackendFailed) =>
             /\ exit_status = 0
             /\ \A a \in Artifacts : attempts[a] = 1

\* C5, amended: in the headless-browser pipeline an empty contributor list is a valid
\* result (total_contributors 0, total_commits 0 when no statistic is supplied, an
\* empty top-3, both renderers invoked, failure only when a template or the browser
\* fails); the charting pipeline treats it as a failure: it prints its diagnostic,
\* draws nothing and exits with status 1.
C5_EmptyListByPipeline ==
    EmptyListLoaded =>
        /\ script = "html" =>
             /\ Prepared =>
                  /\ prepared.contributors = <<>>
                  /\ prepared.total_contributors = 0
                  /\ ~ExternalTotalSupplied => prepared.total_commits = 0
             /\ attempts[Top3Png] >= 1 => view.top3 = <<>> /\ view.medals = <<>>
             /\ attempts[RankingPng] >= 1 => view.ranking = <<>>
             /\ uncaught # "KeyError"
             /\ (pc = "done" /\ ~BackendFailed) =>
                  /\ exit_status = 0
                  /\ \A a \in Artifacts : attempts[a] = 1 /\ artifacts[a] = "written"
        /\ (script = "charts" /\ pc # "prepare") =>
             /\ prepared.contributors = <<>>
             /\ InDiag("No contributor data to visualize")
             /\ success = "False"
             /\ view = NoView
             /\ \A a \in Artifacts : attempts[a] = 0 /\ artifacts[a] = "absent"
             /\ pc = "done" => exit_status = 1 /\ uncaught = "none"

\* a headless-browser run on an empty contributor list has ended in success
C5_Witness ==
    /\ EmptyListLoaded
    /\ script = "html"
    /\ pc = "done"
    /\ exit_status = 0
    /\ view.top3 = <<>>

\* C6 as stated: no exception escapes generate_images / generate_all_charts; every
\* failure ends in main's diagnostic and exit status 1.
C6_EveryErrorCaught ==
    /\ uncaught = "none"
    /\ (pc = "done" /\ exit_status # 0) => InDiag("generation failed!")

\* C7: at most one browser is open at any time, and one is open only inside the
\* render_html_to_image call that launched it: every path out of the call (success,
\* or a failure at newPage, setViewport, evaluate, setContent, the settle delay or
\* screenshot) has closed it, and none is open when the run ends.
C7_BrowserClosedOnEveryPath ==
    /\ opened \in {0, 1}
    /\ opened = 1 =>
         /\ browser = "open"
         /\ pc = "finally" \/ \E i \in 1..Len(PageSteps) : pc = PageSteps[i]
    /\ pc \in {"returned", "create_detailed_html", "main", "done"} =>
         browser # "open" /\ opened = 0
    /\ launches <= 2

\* the second render launched its browser, failed, and has returned
C7_Witness ==
    /\ pc = "returned"
    /\ cur = RankingPng
    /\ launches = 2
    /\ ~rendered[RankingPng]
    /\ browser = "closed"

\* C8: each artifact is attempted at most once; the second only after the first
\* was rendered; a rendered artifact stays written whatever happens later; and the
\* run succeeds (exit status 0) only if both were rendered, so a rendering failure
\* ends the run with a non-zero status.
C8_RenderFailureFailsRun ==
    /\ \A a \in Artifacts : attempts[a] <= 1
    /\ attempts[RankingPng] >= 1 => rendered[Top3Png]
    /\ \A a \in Artifacts : rendered[a] => (attempts[a] = 1 /\ artifacts[a] = "written")
    /\ success = "True" => \A a \in Artifacts : rendered[a]
    /\ pc = "done" => (exit_status = 0 <=> success = "True")
    /\ (pc = "done" /\ \E a \in Artifacts : attempts[a] >= 1 /\ ~rendered[a]) =>
         exit_status # 0

\* the overview was written, the ranking's rendering failed, and the run has ended
C8_Witness ==
    /\ pc = "done"
    /\ rendered[Top3Png] /\ artifacts[Top3Png] = "written"
    /\ attempts[RankingPng] = 1 /\ ~rendered[RankingPng]
    /\ exit_status = 1

RECURSIVE CommitsTotal(_, _)
\* the sum of commits over the first n summaries
CommitsTotal(summaries, n) ==
    IF n = 0 THEN 0 ELSE CommitsTotal(summaries, n - 1) + summaries[n].commits

\* C9: the aggregate's total_commits is statistics.total_commits whenever the
\* document supplies it, and otherwise the sum of commits over the summaries.
C9_TotalCommits ==
    (Prepared /\ script = "html") =>
        prepared.total_commits =
            IF ExternalTotalSupplied THEN data.doc.statistics.total_commits
            ELSE CommitsTotal(prepared.contributors, Len(prepared.contributors))

\* an aggregate was built from a supplied statistic that differs from the sum
C9_Witness ==
    /\ Prepared /\ script = "html"
    /\ ExternalTotalSupplied
    /\ Len(prepared.contributors) >= 2
    /\ CommitsTotal(prepared.contributors, Len(prepared.contributors)) > 0
    /\ data.doc.statistics.total_commits
         # CommitsTotal(prepared.contributors, Len(prepared.contributors))

\* the top-contributors view has been drawn
Top3Drawn ==
    \/ script = "html" /\ attempts[Top3Png] >= 1
    \/ script = "charts" /\ rendered[Top3Png]

\* C10 as stated: the top-contributors view is exactly the first min(3, n) entries
\* of the ranked list, in rank order, and no rank marker is drawn for a contributor
\* that does not exist.
C10_TopViewNotPadded ==
    Top3Drawn =>
        LET n == Len(prepared.contributors)
            m == IF n < 3 THEN n ELSE 3
        IN  /\ Len(view.top3) = m
            /\ \A i \in 1..m :
                 /\ view.top3[i].name = prepared.contributors[i].name
                 /\ view.top3[i].commits = prepared.contributors[i].commits
            /\ \A i \in 1..Len(view.medals) : view.medals[i].at <= m

\* the complete-ranking view has been drawn
RankingDrawn ==
    \/ script = "html" /\ attempts[RankingPng] >= 1
    \/ script = "charts" /\ rendered[RankingPng]

\* C11 as stated: the complete-ranking artifact holds one entry per contributor of
\* the ranked list, all n of them, in ranked order, in both pipelines.
C11_CompleteRankingHoldsAll ==
    RankingDrawn =>
        /\ Len(view.ranking) = Len(prepared.contributors)
        /\ \A i \in 1..Len(view.ranking) :
             i <= Len(prepared.contributors) =>
                /\ view.ranking[i].name = prepared.contributors[i].name
                /\ view.ranking[i].commits = prepared.contributors[i].commits

\* C12: in the headless-browser pipeline the height handed to the renderer for
\* complete-ranking.png is 360 + 45 * n for the n contributors of the ranked list
\* (360 for an empty list), and the viewport and the screenshot clip both use it.
C12_RankingHeight ==
    (script = "html" /\ attempts[RankingPng] >= 1) =>
        LET n == Len(prepared.contributors)
        IN  /\ dims.height = 360 + (45 * n)
            /\ n = 0 => dims.height = 360
            /\ "height" \in DOMAIN dims.viewport => dims.viewport.height = 360 + (45 * n)
            /\ "height" \in DOMAIN dims.clip =>
                 /\ dims.clip.height = 360 + (45 * n)
                 /\ dims.clip.height = dims.viewport.height

\* the ranking of two or more contributors was captured, viewport and clip set
C12_Witness ==
    /\ script = "html"
    /\ artifacts[RankingPng] = "written"
    /\ Len(prepared.contributors) >= 2
    /\ "height" \in DOMAIN dims.viewport
    /\ "height" \in DOMAIN dims.clip
    /\ dims.clip.height > 360

\* sum of field k over the first n summaries of a ranked list
RECURSIVE FieldTotal(_, _, _)
FieldTotal(summaries, k, n) ==
    IF n = 0 THEN 0 ELSE summaries[n][k] + FieldTotal(summaries, k, n - 1)

\* C13 as stated: the aggregate of the headless-browser pipeline totals the
\* per-contributor summaries: total_additions and total_deletions are the sums of
\* their additions and deletions, and the aggregate net_lines is the sum of their
\* net_lines, whatever the mix of full-shape and summary-shape records.
C13_AggregateTotalsSumSummaries ==
    (Prepared /\ script = "html") =>
        LET n == Len(prepared.contributors)
        IN  /\ prepared.total_additions = FieldTotal(prepared.contributors, "additions", n)
            /\ prepared.total_deletions = FieldTotal(prepared.contributors, "deletions", n)
            /\ prepared.net_lines = FieldTotal(prepared.contributors, "net_lines", n)

\* the five ranked fields of every summary of a list
CoreSeq(summaries) == [i \in 1..Len(summaries) |-> Core(summaries[i])]

\* prepare_contributor_data of the pipeline that is not running raises on the document
OtherPipelineFails ==
    LET contributors == InputContributors
    IN  IF script = "html"
        THEN contributors # <<>> /\ \E i \in 1..Len(contributors) : ChartsKeyError(contributors[i])
        ELSE \E i \in 1..Len(contributors) : HtmlKeyError(contributors[i])

\* the ranked list the pipeline that is not running prepares from the document
OtherPipelineRanking ==
    IF script = "html" THEN ChartsPrepared(data.doc).contributors
    ELSE HtmlAggregate(data.doc).contributors

\* C14 as stated: on every parsed document the two prepare_contributor_data either
\* both fail or both produce the same ranked sequence of (name, commits, additions,
\* deletions, net_lines).
C14_PipelinesRankIdentically ==
    /\ uncaught = "KeyError" => OtherPipelineFails
    /\ Prepared =>
         IF OtherPipelineFails THEN FALSE
         ELSE CoreSeq(prepared.contributors) = CoreSeq(OtherPipelineRanking)

====
